---- MODULE Spec2Model ----
(***************************************************************************)
(* OptimizationRunner (doin_optimizer/runner.py) as a state machine.      *)
(*                                                                         *)
(* The runner is an asyncio object: coroutines of several tasks share its  *)
(* fields and are interleaved only at their suspension points, which are   *)
(* the HTTP post inside _submit_optimae and asyncio.sleep in the loop of   *)
(* start(); the close() of the session in the finally clause of start()    *)
(* is the last thing start() does and is taken in one piece.  Every action *)
(* below is one uninterrupted run of a coroutine from a call or a          *)
(* resumption to its next suspension or its return.                        *)
(*                                                                         *)
(* Performances are integers (comparison, subtraction and abs are exact).  *)
(* Parameters are opaque to the runner: the dict returned by the k-th call *)
(* of plugin.optimize() is named k.  None is -1 for numbers and 0 for      *)
(* parameters and for the session.                                         *)
(***************************************************************************)
EXTENDS Integers, Sequences, FiniteSets, TLC

\* ---------------------------------------------------------------- bounds
NumTasks == 2       \* caller tasks that may await start / run_single_step
MaxCalls == 3       \* calls of plugin.optimize() in one behaviour
MaxPerf == 2        \* performances are 0..MaxPerf
MaxStarts == 2      \* start() calls that get past the plugin check

None == -1
NoParams == 0
NoSession == 0

Tasks == 1..NumTasks
Performances == 0..MaxPerf
\* what plugin.optimize() does: returns a candidate, raises NoImprovementError,
\* or raises anything else
StrategyResults == {"candidate", "NoImprovementError", "Exception"}
\* what plugin.get_domain_metadata() does: returns a dict with
\* higher_is_better True / False / missing, or raises
MetadataResults == {"higher", "lower", "absent", "fault"}
\* HTTP statuses a node may answer with
Statuses == {200, 204, 500}
\* OptimizerConfig.max_steps and .optimization_interval of the run
MaxStepsChoices == {None, 0, 1}
Intervals == {0, 1}

VARIABLES
    max_steps,                  \* config.max_steps (None = not set)
    optimization_interval,      \* config.optimization_interval, in ticks
    plugin,                     \* self._plugin is not None
    session,                    \* self._session: index into sessions, or NoSession
    running,                    \* self._running
    steps_completed,            \* self._steps_completed
    improvements_found,         \* self._improvements_found
    current_best_params,        \* self._current_best_params
    current_best_performance,   \* self._current_best_performance
    sessions,                   \* every ClientSession made so far
    pc,                         \* where each task's coroutine is suspended
    frame,                      \* locals of a step suspended in the post
    timer,                      \* ticks left of a task's asyncio.sleep
    lastReturn,                 \* the call that ended in the latest transition
    calls,                      \* plugin.optimize() calls made
    created,                    \* Optimae objects constructed
    lastStep,                   \* the step that ran in the latest transition
    stopped                     \* loops that were live when stop() last ran

vars == <<max_steps, optimization_interval, plugin, session, running,
          steps_completed, improvements_found, current_best_params,
          current_best_performance, sessions, pc, frame, timer, lastReturn,
          calls, created, lastStep, stopped>>

config == <<max_steps, optimization_interval>>
tracker == <<current_best_params, current_best_performance, improvements_found>>

\* the parameters plugin.optimize() returns in this call
Parameters == {calls + 1}

NoOptimae ==
    [id |-> 0, parameters |-> NoParams, reported_performance |-> None,
     performance_increment |-> 0]
NoRequest == [reported_performance |-> None, previous_best_performance |-> None]
NoFrame == [optimae |-> NoOptimae, request |-> NoRequest, via |-> NoSession]
NoReturn ==
    [task |-> 0, call |-> "none", exc |-> "none", result |-> NoOptimae,
     ok |-> "none"]
NoStep ==
    [task |-> 0, loop |-> FALSE, strategy |-> "none", metadata |-> "none",
     performance |-> None, previous |-> None, control |-> "none",
     optimae |-> 0, increment |-> 0]

Abs(x) == IF x < 0 THEN -x ELSE x

\* ------------------------------------------------------------- sessions
\* ClientSession(timeout=...) at runner.py:94: a new session, open, made by task t
NewSession(t) == [owner |-> t, closes |-> 0, live |-> TRUE]

\* self._session is set and the ClientSession has not been closed: a post on
\* it is sent and the coroutine is suspended until the node answers.  With no
\* session _submit_optimae returns False at once (runner.py:188-190); on a
\* closed one post() raises and the except clause returns False.
SessionUsable(sess, tab) == sess # NoSession /\ tab[sess].closes = 0

\* the finally clause of start(): `if self._session: await self._session.close()`
CloseSession(sess, tab) ==
    IF sess # NoSession THEN [tab EXCEPT ![sess].closes = @ + 1] ELSE tab

\* the loop of task t has left its while: the sessions it opened have no loop
LoopOver(t, tab) ==
    [s \in DOMAIN tab |->
        IF tab[s].owner = t THEN [tab[s] EXCEPT !.live = FALSE] ELSE tab[s]]

\* ----------------------------------------------------- improvement check
\* mutant of higher_is_better: the declared direction is ignored
HigherIsBetterIgnored(md) == TRUE

\* metadata.get("higher_is_better", True)
higher_is_better(md) == IF md = "absent" THEN TRUE ELSE md = "higher"

\* mutant of IsImprovement: the early returns test < and > where the code
\* tests <= and >=, so an equal candidate passes
IsImprovementNonStrict(hib, new_performance, best) ==
    /\ ~(hib /\ new_performance < best)
    /\ ~(~hib /\ new_performance > best)

\* the two early returns of runner.py:150-153, negated
IsImprovement(hib, new_performance, best) ==
    /\ ~(hib /\ new_performance <= best)
    /\ ~(~hib /\ new_performance >= best)

\* mutant of Increment: the difference without abs()
IncrementSigned(new_performance, best) ==
    IF best # None THEN new_performance - best ELSE 0

\* runner.py:156-158
Increment(new_performance, best) ==
    IF best # None THEN Abs(new_performance - best) ELSE 0

\* `if self.config.max_steps and self._steps_completed >= self.config.max_steps`
MaxStepsReached ==
    /\ max_steps # None
    /\ max_steps # 0
    /\ steps_completed >= max_steps

\* What the plugin does in one step: optimize() returns a candidate or raises,
\* and get_domain_metadata(), which is called only for a candidate and only when
\* there is a current best (runner.py:147-148), returns or raises.
Proposals ==
    {[strategy |-> s, parameters |-> NoParams, performance |-> None,
      metadata |-> "none"] : s \in StrategyResults \ {"candidate"}}
    \cup
    {[strategy |-> "candidate", parameters |-> p, performance |-> f,
      metadata |-> m] :
        p \in Parameters, f \in Performances,
        m \in IF current_best_performance = None THEN {"none"}
              ELSE MetadataResults}

\* Where one run of _optimization_step goes, given what the plugin does:
\*   "none"     returns None (no candidate, or candidate rejected)
\*   "raise"    get_domain_metadata() raised: the exception leaves the step
\*   "optimae"  accepted, _submit_optimae returned without suspending
\*   "await"    accepted, suspended in session.post
StepControl(inp, sess, tab) ==
    IF inp.strategy # "candidate" THEN "none"
    ELSE IF current_best_performance # None /\ inp.metadata = "fault" THEN "raise"
    ELSE IF /\ current_best_performance # None
            /\ ~IsImprovement(higher_is_better(inp.metadata), inp.performance,
                              current_best_performance)
         THEN "none"
    ELSE IF SessionUsable(sess, tab) THEN "await"
    ELSE "optimae"

Accepted(control) == control \in {"optimae", "await"}

\* runner.py:160-166
NewOptimae(new_params, new_performance) ==
    [id |-> created + 1, parameters |-> new_params,
     reported_performance |-> new_performance,
     performance_increment |-> Increment(new_performance, current_best_performance)]

\* mutant of UpdateLocalBest: the improvement is not counted
UpdateLocalBestUncounted(new_params, new_performance) ==
    /\ current_best_params' = new_params
    /\ current_best_performance' = new_performance
    /\ improvements_found' = improvements_found

\* mutant of UpdateLocalBest: the parameters are not stored
UpdateLocalBestPerformanceOnly(new_params, new_performance) ==
    /\ current_best_params' = current_best_params
    /\ current_best_performance' = new_performance
    /\ improvements_found' = improvements_found + 1

\* runner.py:168-171, no suspension between the three assignments
UpdateLocalBest(new_params, new_performance) ==
    /\ current_best_params' = new_params
    /\ current_best_performance' = new_performance
    /\ improvements_found' = improvements_found + 1

\* runner.py:192-198: `best` is self._current_best_performance when
\* _submit_optimae runs
Announcement(optimae, best) ==
    [reported_performance |-> optimae.reported_performance,
     previous_best_performance |-> best]

\* `success = resp.status == 200`
SubmitSuccess(status) == status = 200

Bool(b) == IF b THEN "True" ELSE "False"

\* a coroutine call of task t ended: it raised exc, or returned result / ok
Returned(t, call, exc, result, ok) ==
    [task |-> t, call |-> call, exc |-> exc, result |-> result, ok |-> ok]

\* One run of _optimization_step by task t, up to its suspension or return:
\* the tracker, the Optimae, the frame of a suspended post, and the record of
\* the step.  sess/tab are self._session and the sessions as the step sees them.
OptimizationStep(t, loop, inp, sess, tab) ==
    LET control == StepControl(inp, sess, tab)
        optimae == NewOptimae(inp.parameters, inp.performance)
    IN  /\ calls' = calls + 1
        /\ lastStep' =
              [task |-> t, loop |-> loop, strategy |-> inp.strategy,
               metadata |-> inp.metadata, performance |-> inp.performance,
               previous |-> current_best_performance, control |-> control,
               optimae |-> IF Accepted(control) THEN optimae.id ELSE 0,
               increment |-> IF Accepted(control)
                             THEN optimae.performance_increment ELSE 0]
        /\ IF Accepted(control)
           THEN /\ UpdateLocalBest(inp.parameters, inp.performance)
                /\ created' = created + 1
                /\ frame' = [frame EXCEPT ![t] =
                      IF control = "await"
                      THEN [optimae |-> optimae,
                            request |-> Announcement(optimae,
                                           current_best_performance'),
                            via |-> sess]
                      ELSE NoFrame]
           ELSE UNCHANGED <<tracker, created, frame>>

\* mutant of PluginLoaded: the check is missing
PluginLoadedUnchecked == TRUE

\* `if self._plugin is None: raise RuntimeError(...)`, negated
PluginLoaded == plugin

\* mutant of StepReturn: the Optimae is handed back only if it was announced
StepReturnIfAnnounced(optimae, ok) == IF ok = "True" THEN optimae ELSE NoOptimae

\* `return optimae` at the end of the step, whatever _submit_optimae returned
StepReturn(optimae, ok) == optimae

\* what the step hands back when it returns without suspending
StepResult(control, inp) ==
    IF control = "optimae"
    THEN StepReturn(NewOptimae(inp.parameters, inp.performance), "False")
    ELSE NoOptimae

\* the stats property (peer and domain ids left out)
stats ==
    [steps_completed |-> steps_completed,
     improvements_found |-> improvements_found,
     current_best_performance |-> current_best_performance]

\* ------------------------------------------------------------------ Init
Init ==
    /\ max_steps \in MaxStepsChoices
    /\ optimization_interval \in Intervals
    /\ plugin = FALSE
    /\ session = NoSession
    /\ running = FALSE
    /\ steps_completed = 0
    /\ improvements_found = 0
    /\ current_best_params = NoParams
    /\ current_best_performance = None
    /\ sessions = << >>
    /\ pc = [t \in Tasks |-> "idle"]
    /\ frame = [t \in Tasks |-> NoFrame]
    /\ timer = [t \in Tasks |-> 0]
    /\ lastReturn = NoReturn
    /\ calls = 0
    /\ created = 0
    /\ lastStep = NoStep
    /\ stopped = [t \in Tasks |-> "no"]

\* ------------------------------------------------------- the loop of start()
\* the loop leaves its while: the finally clause closes self._session and
\* start() returns (exc = "none") or raises
LoopExit(t, exc, sess, tab) ==
    /\ sessions' = CloseSession(sess, LoopOver(t, tab))
    /\ pc' = [pc EXCEPT ![t] = "idle"]
    /\ timer' = [timer EXCEPT ![t] = 0]
    /\ stopped' = [stopped EXCEPT ![t] = "no"]
    /\ lastReturn' = Returned(t, "start", exc, NoOptimae, "none")

\* the step returned: `self._steps_completed += 1`, then asyncio.sleep(interval)
LoopSleep(t, result, ok) ==
    /\ steps_completed' = steps_completed + 1
    /\ pc' = [pc EXCEPT ![t] = "loop_sleep"]
    /\ timer' = [timer EXCEPT ![t] = optimization_interval]
    /\ lastReturn' = Returned(t, "_optimization_step", "none", result, ok)

\* one pass of the while body after both checks (runner.py:109-111)
LoopStep(t, inp, sess, tab) ==
    LET control == StepControl(inp, sess, tab) IN
    /\ calls < MaxCalls
    /\ OptimizationStep(t, TRUE, inp, sess, tab)
    /\ CASE control = "raise" ->
              /\ LoopExit(t, "Exception", sess, tab)
              /\ UNCHANGED steps_completed
         [] control = "await" ->
              /\ pc' = [pc EXCEPT ![t] = "loop_post"]
              /\ sessions' = tab
              /\ stopped' = [stopped EXCEPT ![t] = "no"]
              /\ UNCHANGED <<steps_completed, timer>>
              /\ lastReturn' = NoReturn
         [] OTHER ->
              /\ LoopSleep(t, StepResult(control, inp),
                           IF control = "optimae" THEN "False" ELSE "none")
              /\ sessions' = tab
              /\ stopped' = [stopped EXCEPT ![t] = "no"]

\* load_plugin() / set_plugin()
SetPlugin ==
    /\ plugin' = TRUE
    /\ UNCHANGED <<config, session, running, steps_completed, tracker, sessions, pc,
                   frame, timer, calls, created, stopped>>
    /\ lastReturn' = NoReturn
    /\ lastStep' = NoStep

\* start() with no plugin: RuntimeError before anything else happens
StartNotReady(t) ==
    /\ pc[t] = "idle"
    /\ ~PluginLoaded
    /\ lastReturn' = Returned(t, "start", "RuntimeError", NoOptimae, "none")
    /\ UNCHANGED <<config, plugin, session, running, steps_completed, tracker,
                   sessions, pc, frame, timer, calls, created, stopped>>
    /\ lastStep' = NoStep

\* mutant of StartSetsRunning: start() leaves the flag as it finds it
StartKeepsRunning == UNCHANGED running

\* `self._running = True`
StartSetsRunning == running' = TRUE

\* start(): opens the session, sets the flag and runs the first pass of the
\* loop up to its first suspension
Start(t, inp) ==
    /\ pc[t] = "idle"
    /\ PluginLoaded
    /\ Len(sessions) < MaxStarts
    /\ ~MaxStepsReached
    /\ session' = Len(sessions) + 1
    /\ StartSetsRunning
    /\ LoopStep(t, inp, Len(sessions) + 1, Append(sessions, NewSession(t)))
    /\ UNCHANGED <<config, plugin>>

\* start() when the bound is already reached: the first pass breaks at once
StartAtMaxSteps(t) ==
    /\ pc[t] = "idle"
    /\ PluginLoaded
    /\ Len(sessions) < MaxStarts
    /\ MaxStepsReached
    /\ session' = Len(sessions) + 1
    /\ StartSetsRunning
    /\ LoopExit(t, "none", Len(sessions) + 1, Append(sessions, NewSession(t)))
    /\ UNCHANGED <<config, plugin, steps_completed, tracker, frame, calls, created>>
    /\ lastStep' = NoStep

\* asyncio.sleep(interval) has run out and the flag is still set: next pass
LoopWake(t, inp) ==
    /\ pc[t] = "loop_sleep"
    /\ timer[t] = 0
    /\ running
    /\ ~MaxStepsReached
    /\ LoopStep(t, inp, session, sessions)
    /\ UNCHANGED <<config, plugin, session, running>>

\* asyncio.sleep(interval) has run out, the flag is set, the bound is reached
LoopMaxSteps(t) ==
    /\ pc[t] = "loop_sleep"
    /\ timer[t] = 0
    /\ running
    /\ MaxStepsReached
    /\ LoopExit(t, "none", session, sessions)
    /\ UNCHANGED <<config, plugin, session, running, steps_completed, tracker, frame,
                   calls, created>>
    /\ lastStep' = NoStep

\* asyncio.sleep(interval) has run out and `while self._running` fails
LoopStopped(t) ==
    /\ pc[t] = "loop_sleep"
    /\ timer[t] = 0
    /\ ~running
    /\ LoopExit(t, "none", session, sessions)
    /\ UNCHANGED <<config, plugin, session, running, steps_completed, tracker, frame,
                   calls, created>>
    /\ lastStep' = NoStep

\* time passes for a sleeping loop
SleepTick(t) ==
    /\ pc[t] = "loop_sleep"
    /\ timer[t] > 0
    /\ timer' = [timer EXCEPT ![t] = @ - 1]
    /\ UNCHANGED <<config, plugin, session, running, steps_completed, tracker,
                   sessions, pc, frame, calls, created, stopped>>
    /\ lastReturn' = NoReturn
    /\ lastStep' = NoStep

\* stop(): clears the flag
Stop ==
    /\ running' = FALSE
    /\ stopped' = [t \in Tasks |->
          IF stopped[t] # "no" THEN stopped[t]
          ELSE IF pc[t] = "loop_post" THEN "post"
          ELSE IF pc[t] = "loop_sleep" THEN "sleep"
          ELSE "no"]
    /\ UNCHANGED <<config, plugin, session, steps_completed, tracker, sessions, pc,
                   frame, timer, calls, created>>
    /\ lastReturn' = NoReturn
    /\ lastStep' = NoStep

\* --------------------------------------------------------- run_single_step
\* mutant of RunSingleStepKeeps: the call clears the running flag
RunSingleStepClearsFlag ==
    /\ running' = FALSE
    /\ UNCHANGED <<config, plugin, session, steps_completed, sessions, timer,
                   stopped>>

\* run_single_step() assigns nothing itself (runner.py:126-129): beyond what
\* its step changes, the runner is as it was
RunSingleStepKeeps ==
    UNCHANGED <<config, plugin, session, running, steps_completed, sessions,
                timer, stopped>>

\* run_single_step() with no plugin: RuntimeError
RunSingleStepNotReady(t) ==
    /\ pc[t] = "idle"
    /\ ~PluginLoaded
    /\ lastReturn' = Returned(t, "run_single_step", "RuntimeError", NoOptimae,
                              "none")
    /\ UNCHANGED <<config, plugin, session, running, steps_completed, tracker,
                   sessions, pc, frame, timer, calls, created, stopped>>
    /\ lastStep' = NoStep

\* run_single_step() with a plugin: one step, up to its suspension or return
RunSingleStep(t, inp) ==
    /\ pc[t] = "idle"
    /\ PluginLoaded
    /\ calls < MaxCalls
    /\ LET control == StepControl(inp, session, sessions) IN
       /\ OptimizationStep(t, FALSE, inp, session, sessions)
       /\ pc' = [pc EXCEPT ![t] = IF control = "await" THEN "single_post" ELSE "idle"]
       /\ lastReturn' =
             IF control = "await" THEN NoReturn
             ELSE Returned(t, "run_single_step",
                           IF control = "raise" THEN "Exception" ELSE "none",
                           StepResult(control, inp),
                           IF control = "optimae" THEN "False" ELSE "none")
    /\ RunSingleStepKeeps

\* ---------------------------------------------------------- _submit_optimae
\* _submit_optimae(optimae) called again, by an idle task, for the Optimae the
\* latest step handed back
Resubmit(t) ==
    /\ pc[t] = "idle"
    /\ lastReturn.result # NoOptimae
    /\ IF SessionUsable(session, sessions)
       THEN /\ pc' = [pc EXCEPT ![t] = "submit_post"]
            /\ frame' = [frame EXCEPT ![t] =
                  [optimae |-> lastReturn.result,
                   request |-> Announcement(lastReturn.result,
                                            current_best_performance),
                   via |-> session]]
            /\ lastReturn' = NoReturn
       ELSE /\ lastReturn' = Returned(t, "_submit_optimae", "none",
                                      lastReturn.result, "False")
            /\ UNCHANGED <<pc, frame>>
    /\ UNCHANGED <<config, plugin, session, running, steps_completed, tracker,
                   sessions, timer, calls, created, stopped>>
    /\ lastStep' = NoStep

\* the suspended post is over and _submit_optimae returns `ok`; the coroutine
\* that awaited it runs on to its own next suspension or return
PostReturns(t, ok) ==
    /\ pc[t] \in {"loop_post", "single_post", "submit_post"}
    /\ frame' = [frame EXCEPT ![t] = NoFrame]
    /\ IF pc[t] = "loop_post"
       THEN LoopSleep(t, StepReturn(frame[t].optimae, ok), ok)
       ELSE /\ pc' = [pc EXCEPT ![t] = "idle"]
            /\ lastReturn' =
                  IF pc[t] = "single_post"
                  THEN Returned(t, "run_single_step", "none",
                                StepReturn(frame[t].optimae, ok), ok)
                  ELSE Returned(t, "_submit_optimae", "none",
                                frame[t].optimae, ok)
            /\ UNCHANGED <<steps_completed, timer>>
    /\ UNCHANGED <<config, plugin, session, running, tracker, sessions, calls,
                   created, stopped>>
    /\ lastStep' = NoStep

\* the node answered with an HTTP status
PostResponse(t, status) == PostReturns(t, Bool(SubmitSuccess(status)))

\* the request failed below HTTP: the except clause returns False
PostFault(t) == PostReturns(t, "False")

\* ------------------------------------------------------------------ Next
Next ==
    \/ SetPlugin
    \/ Stop
    \/ \E t \in Tasks : StartNotReady(t)
    \/ \E t \in Tasks : RunSingleStepNotReady(t)
    \/ \E t \in Tasks, inp \in Proposals : Start(t, inp)
    \/ \E t \in Tasks : StartAtMaxSteps(t)
    \/ \E t \in Tasks, inp \in Proposals : LoopWake(t, inp)
    \/ \E t \in Tasks : LoopMaxSteps(t)
    \/ \E t \in Tasks : LoopStopped(t)
    \/ \E t \in Tasks : SleepTick(t)
    \/ \E t \in Tasks, inp \in Proposals : RunSingleStep(t, inp)
    \/ \E t \in Tasks : Resubmit(t)
    \/ \E t \in Tasks, status \in Statuses : PostResponse(t, status)
    \/ \E t \in Tasks : PostFault(t)

Spec == Init /\ [][Next]_vars

\* The same runner driven by callers that never let two start() calls overlap:
\* start() is called only when no loop of an earlier start() is still suspended.
NoLoopLive == \A t \in Tasks : pc[t] \notin {"loop_post", "loop_sleep"}

NextOneLoop ==
    \/ SetPlugin
    \/ Stop
    \/ \E t \in Tasks : StartNotReady(t)
    \/ \E t \in Tasks : RunSingleStepNotReady(t)
    \/ \E t \in Tasks, inp \in Proposals : NoLoopLive /\ Start(t, inp)
    \/ \E t \in Tasks : NoLoopLive /\ StartAtMaxSteps(t)
    \/ \E t \in Tasks, inp \in Proposals : LoopWake(t, inp)
    \/ \E t \in Tasks : LoopMaxSteps(t)
    \/ \E t \in Tasks : LoopStopped(t)
    \/ \E t \in Tasks : SleepTick(t)
    \/ \E t \in Tasks, inp \in Proposals : RunSingleStep(t, inp)
    \/ \E t \in Tasks : Resubmit(t)
    \/ \E t \in Tasks, status \in Statuses : PostResponse(t, status)
    \/ \E t \in Tasks : PostFault(t)

SpecOneLoop == Init /\ [][NextOneLoop]_vars

\* =================================================================== claims
\* the step of the latest transition made an Optimae and replaced the best
StepAccepted == lastStep.optimae # 0

\* every Optimae record some coroutine currently holds or was last handed
HeldOptimae == {frame[t].optimae : t \in Tasks} \cup {lastReturn.result}

\* the Optimae of the latest accepted step, wherever it is held
LatestOptimae == {o \in HeldOptimae : o.id # 0 /\ o.id = created}

\* C1: in a step (of the loop or of run_single_step) whose strategy returned a
\* candidate, with the direction the metadata declared, the candidate is accepted
\* iff there is no current best or its performance is strictly better than the
\* current best in that direction; an equal candidate is never accepted.
AcceptedIffStrictlyBetter ==
    (/\ lastStep.strategy = "candidate"
     /\ lastStep.metadata \in {"none", "higher", "lower"})
    => (StepAccepted <=>
           \/ lastStep.previous = None
           \/ /\ lastStep.metadata = "higher"
              /\ lastStep.performance > lastStep.previous
           \/ /\ lastStep.metadata = "lower"
              /\ lastStep.performance < lastStep.previous)

\* C1 witness: a loop-driven step, lower is better, candidate equal to the best
EqualCandidateRejected ==
    /\ lastStep.loop
    /\ lastStep.strategy = "candidate"
    /\ lastStep.metadata = "lower"
    /\ lastStep.previous # None
    /\ lastStep.performance = lastStep.previous
    /\ ~StepAccepted

\* C2: the Optimae of an accepted step carries performance_increment 0 when
\* there was no best before the step, and otherwise the absolute difference
\* between its reported performance and the best held just before the step.
IncrementIsDistanceFromPreviousBest ==
    StepAccepted =>
        LET expected ==
              IF lastStep.previous = None THEN 0
              ELSE IF lastStep.performance >= lastStep.previous
                   THEN lastStep.performance - lastStep.previous
                   ELSE lastStep.previous - lastStep.performance
        IN  /\ lastStep.increment = expected
            /\ \A o \in LatestOptimae :
                  /\ o.reported_performance = lastStep.performance
                  /\ o.performance_increment = expected

\* C2 witness: a step accepted below the previous best (lower is better) has
\* handed back its Optimae
AcceptedBelowPreviousBest ==
    /\ StepAccepted
    /\ lastStep.previous # None
    /\ lastStep.performance < lastStep.previous
    /\ lastReturn.result \in LatestOptimae

\* C3: current-best parameters and current-best performance are both None or
\* both set, in every state, also while a step is suspended in its submission
\* and after a step that raised.
BestPairBothOrNeither ==
    (current_best_params = NoParams) <=> (current_best_performance = None)

\* C3 witness: a loop step is suspended in its post, the best is set, and the
\* latest step (of another task) raised
SuspendedStepAndFailedStep ==
    /\ \E t \in Tasks : pc[t] = "loop_post"
    /\ current_best_performance # None
    /\ lastStep.control = "raise"

\* a suspended submission of task t comes to its end in this transition
SubmissionEnds(t) == frame[t] # NoFrame /\ frame'[t] = NoFrame

\* C4: submission changes nothing of the tracker.  Whatever the node answers, or
\* if the request fails, or if there is no usable session, and also when an
\* Optimae is submitted again: the current best and improvements_found stay as
\* acceptance set them, steps_completed moves only by the loop's own +1, the
\* step hands its Optimae to its caller, and until another candidate is
\* accepted the current best is the accepted candidate.
SubmissionIsNotAMutation ==
    /\ [](\A o \in LatestOptimae :
            /\ current_best_performance = o.reported_performance
            /\ current_best_params = o.parameters
            /\ improvements_found = o.id)
    /\ [][\A t \in Tasks : SubmissionEnds(t) =>
            /\ UNCHANGED <<tracker, created>>
            /\ steps_completed' =
                  steps_completed + (IF pc[t] = "loop_post" THEN 1 ELSE 0)
            /\ lastReturn'.exc = "none"
            /\ lastReturn'.result = frame[t].optimae]_vars
    /\ [][(calls' = calls + 1 /\ lastStep'.control = "optimae") =>
            /\ lastReturn'.exc = "none"
            /\ lastReturn'.result.id = lastStep'.optimae
            /\ lastReturn'.result.reported_performance = current_best_performance'
            /\ lastReturn'.result.parameters = current_best_params']_vars
    /\ [][(lastReturn'.call = "_submit_optimae" /\ lastReturn' # lastReturn) =>
            /\ UNCHANGED <<tracker, created, steps_completed>>
            /\ lastReturn'.result \in HeldOptimae]_vars

\* C4 witness: the Optimae of the latest accepted step was submitted a second
\* time, that submission failed, and the current best is still that candidate
ResubmittedAndFailed ==
    /\ lastReturn.call = "_submit_optimae"
    /\ lastReturn.ok = "False"
    /\ lastReturn.result \in LatestOptimae
    /\ current_best_performance = lastReturn.result.reported_performance

\* a step of the loop of task t begins in this transition
LoopStepBegins(t) ==
    calls' = calls + 1 /\ lastStep'.loop /\ lastStep'.task = t

\* C5: when a strategy call made in a loop-driven step fails (optimize() raises
\* NoImprovementError or anything else, or get_domain_metadata() raises), the
\* step's result is None, the current best is unchanged, the runner stays
\* running and the loop goes to sleep before its next step.
StrategyFaultNeverEndsLoop ==
    [][\A t \in Tasks :
          (/\ LoopStepBegins(t)
           /\ \/ lastStep'.strategy # "candidate"
              \/ lastStep'.metadata = "fault")
          => /\ lastStep'.control = "none"
             /\ UNCHANGED tracker
             /\ running'
             /\ pc'[t] = "loop_sleep"]_vars

\* C6: with no plugin bound, start() and run_single_step() raise the not-ready
\* RuntimeError and nothing else happens: no session, flag false, no step,
\* counters zero, no current best, no loop.
NotReadyChangesNothing ==
    ~plugin =>
        /\ session = NoSession
        /\ sessions = << >>
        /\ ~running
        /\ steps_completed = 0
        /\ improvements_found = 0
        /\ calls = 0
        /\ created = 0
        /\ current_best_params = NoParams
        /\ current_best_performance = None
        /\ \A t \in Tasks : pc[t] = "idle"
        /\ lastReturn.call \in {"none", "start", "run_single_step"}
        /\ lastReturn.call # "none" => lastReturn.exc = "RuntimeError"

\* C6 witness: start() was called with no plugin and raised
StartRaisedNotReady ==
    /\ ~plugin
    /\ lastReturn.call = "start"
    /\ lastReturn.exc = "RuntimeError"

\* C7: every session start() opened is closed exactly once when its loop is
\* over, however the loop ended, and is not closed while its loop is running.
SessionClosedExactlyOnce ==
    \A s \in DOMAIN sessions :
        IF sessions[s].live THEN sessions[s].closes = 0
        ELSE sessions[s].closes = 1

\* C8: after stop() has run while the loop of task t was suspended in a step's
\* post or in its sleep, that loop begins no further step.
NoStepAfterStop ==
    [][\A t \in Tasks : stopped[t] # "no" => ~LoopStepBegins(t)]_vars

\* C9: after stop() has run while the loop of task t was sleeping, the loop does
\* not go on sleeping: no more of the interval elapses for it.
StopInterruptsSleep ==
    [][\A t \in Tasks :
          (stopped[t] = "sleep" /\ pc[t] = "loop_sleep")
          => timer'[t] = timer[t]]_vars

\* C10: with max_steps set to any N >= 0, the loop begins no step once
\* steps_completed has reached N.
NoStepOnceBoundReached ==
    [][\A t \in Tasks :
          LoopStepBegins(t) =>
             (max_steps = None \/ steps_completed < max_steps)]_vars

\* C11: the announcement a step builds for its accepted Optimae carries as
\* previous_best_performance the best held just before the step accepted the
\* candidate: None for the first accepted candidate, the prior best otherwise.
AnnouncementCarriesPreviousBest ==
    \A t \in Tasks :
        (lastStep.task = t /\ lastStep.control = "await")
        => frame[t].request.previous_best_performance = lastStep.previous

\* C12: a submission whose request was answered reports success iff the status
\* is in 200..299; a request that failed below HTTP reports failure.
SubmissionSucceedsIff2xx ==
    [][\A t \in Tasks :
          /\ \A status \in Statuses :
                PostResponse(t, status) =>
                   (lastReturn'.ok = "True" <=> status \in 200..299)
          /\ PostFault(t) => lastReturn'.ok = "False"]_vars

\* a step (of a loop or of run_single_step) is suspended in its submission
StepInFlight == \E t \in Tasks : pc[t] \in {"loop_post", "single_post"}

\* C13: the strategy is asked for a proposal only when no step is in execution:
\* a step completes, its submission included, before the next one begins, also
\* when run_single_step() is called while the loop runs.
OneStepAtATime ==
    [][calls' = calls + 1 => ~StepInFlight]_vars

\* the step of this transition got a candidate that is not strictly better
\* than the best held before it, in the declared direction
CandidateRejected ==
    /\ calls' = calls + 1
    /\ lastStep'.strategy = "candidate"
    /\ lastStep'.previous # None
    /\ \/ lastStep'.metadata = "higher" /\ lastStep'.performance <= lastStep'.previous
       \/ lastStep'.metadata = "lower" /\ lastStep'.performance >= lastStep'.previous

\* C14: a step whose candidate is not an improvement leaves the current best
\* and improvements_found unchanged, creates no Optimae, sends no request, and
\* returns None to its caller without raising.
RejectedCandidateChangesNothing ==
    [][CandidateRejected =>
          /\ UNCHANGED <<tracker, created, frame>>
          /\ pc'[lastStep'.task] \notin {"loop_post", "single_post"}
          /\ lastReturn'.task = lastStep'.task
          /\ lastReturn'.exc = "none"
          /\ lastReturn'.result = NoOptimae]_vars

\* C14 witness: run_single_step() got a worse candidate (higher is better) and
\* returned None; the best is the one held before
WorseCandidateReturnedNone ==
    /\ lastStep.strategy = "candidate"
    /\ lastStep.metadata = "higher"
    /\ lastStep.previous # None
    /\ lastStep.performance < lastStep.previous
    /\ lastReturn.call = "run_single_step"
    /\ lastReturn.exc = "none"
    /\ lastReturn.result = NoOptimae
    /\ current_best_performance = lastStep.previous

\* task t calls run_single_step() with a plugin bound, in this transition
RunSingleStepCalled(t) ==
    /\ pc[t] = "idle"
    /\ plugin
    /\ \/ pc'[t] = "single_post"
       \/ lastReturn'.call = "run_single_step" /\ lastReturn'.task = t

\* the run_single_step() of task t is resumed after its post and returns
RunSingleStepResumed(t) == pc[t] = "single_post" /\ pc'[t] # "single_post"

\* C15: run_single_step() with a plugin bound, whether or not a loop is running,
\* makes exactly one step (one call of the strategy), leaves the running flag as
\* it is, starts and ends no loop, and opens and closes no session.
RunSingleStepIsOneStepOnly ==
    [][\A t \in Tasks :
          /\ RunSingleStepCalled(t) =>
                /\ calls' = calls + 1
                /\ lastStep'.task = t /\ ~lastStep'.loop
          /\ RunSingleStepResumed(t) =>
                /\ calls' = calls
                /\ pc'[t] = "idle"
                /\ lastReturn'.call = "run_single_step"
          /\ (RunSingleStepCalled(t) \/ RunSingleStepResumed(t)) =>
                /\ UNCHANGED <<running, session, sessions>>
                /\ \A u \in Tasks \ {t} : pc'[u] = pc[u]]_vars

\* C15 witness: run_single_step() has returned an Optimae while the flag is set
\* and the loop of another task is asleep
SingleStepDuringLoop ==
    /\ running
    /\ \E t \in Tasks : pc[t] = "loop_sleep"
    /\ lastReturn.call = "run_single_step"
    /\ lastReturn.result # NoOptimae

\* the loop step of task t ends in this transition: it returns or raises,
\* at once or after its suspended post
LoopStepEnds(t) ==
    \/ LoopStepBegins(t) /\ pc'[t] # "loop_post"
    \/ pc[t] = "loop_post" /\ pc'[t] # "loop_post"

\* C16: steps_completed rises by exactly one when a step executed by a loop
\* ends, whatever the step's outcome, and changes at no other time (not in
\* run_single_step()).
StepsCompletedCountsLoopSteps ==
    [][/\ \A t \in Tasks :
             LoopStepEnds(t) => steps_completed' = steps_completed + 1
       /\ steps_completed' # steps_completed => \E t \in Tasks : LoopStepEnds(t)]_vars

\* C17: once a loop has been started and has exited, its session closed, no
\* loop is live again and no loop-driven step is executed, whatever is called.
StoppedIsTerminal ==
    [][(Len(sessions) > 0 /\ NoLoopLive)
          => /\ \A t \in Tasks : pc'[t] \notin {"loop_post", "loop_sleep"}
             /\ \A t \in Tasks : ~LoopStepBegins(t)]_vars

\* the Optimae with this id has been handed back by the step that made it: a
\* step holds its Optimae from acceptance to its return, and always returns it
AlreadyReturned(id) ==
    /\ id \in 1..created
    /\ \A t \in Tasks :
          pc[t] \in {"loop_post", "single_post"} => frame[t].optimae.id # id

\* a step hands back an Optimae in this transition
StepReturnsOptimae ==
    /\ lastReturn' # NoReturn
    /\ lastReturn'.call \in {"run_single_step", "_optimization_step"}
    /\ lastReturn'.result # NoOptimae

\* C18: with a constant direction the current best, once set, moves only in
\* that direction, and every Optimae a step returns is strictly better than all
\* Optimae returned before it.  The best is replaced only by a candidate
\* strictly better in the direction declared in that step, so Optimae improve
\* strictly in the order of acceptance; the second half then says that no
\* Optimae is returned after one that was accepted later.
BestAndReturnedOptimaeOnlyImprove ==
    [][/\ (current_best_performance # None
           /\ current_best_performance' # current_best_performance)
          => \/ /\ lastStep'.metadata = "higher"
                /\ current_best_performance' > current_best_performance
             \/ /\ lastStep'.metadata = "lower"
                /\ current_best_performance' < current_best_performance
             \/ /\ lastStep'.metadata = "absent"
                /\ current_best_performance' > current_best_performance
       /\ StepReturnsOptimae
          => \A id \in (lastReturn'.result.id + 1)..created :
                ~AlreadyReturned(id)]_vars

\* C19: improvements_found is the number of Optimae created, it rises by one
\* exactly in the transitions that replace the current best, the current best
\* is set iff improvements_found > 0, and stats reports these values.
ImprovementsFoundCountsOptimae ==
    /\ [](/\ improvements_found = created
          /\ (current_best_performance # None) <=> (improvements_found > 0)
          /\ (current_best_params # NoParams) <=> (improvements_found > 0)
          /\ stats.improvements_found = created
          /\ stats.current_best_performance = current_best_performance)
    /\ [][/\ improvements_found' \in {improvements_found, improvements_found + 1}
          /\ (improvements_found' = improvements_found + 1)
             <=> (current_best_params' # current_best_params)
          /\ (current_best_performance' # current_best_performance)
             => (improvements_found' = improvements_found + 1)]_vars

\* C19 witness: a second Optimae was just created by an accepted step and the
\* counter reads 2
SecondImprovementCounted ==
    /\ lastStep.optimae = 2
    /\ stats.improvements_found = 2
    /\ stats.current_best_performance = lastStep.performance

\* start() got past the plugin check in this transition: it opened a session
StartOpensSession == Len(sessions') = Len(sessions) + 1

\* C20: the running flag is written only by start(), which sets it once the
\* plugin check has passed (also after an earlier stop()), and by stop(), which
\* clears it; steps, submissions and the exits of the loop by the bound or by a
\* fault leave it alone, so after start() returns it holds what start() or a
\* later stop() last wrote.
RunningWrittenByStartAndStopOnly ==
    [][/\ StartOpensSession => (plugin /\ running')
       /\ (running' # running) =>
             \/ running' /\ StartOpensSession
             \/ /\ ~running'
                /\ UNCHANGED <<config, plugin, session, steps_completed,
                               tracker, sessions, pc, frame, timer, calls,
                               created>>]_vars

\* C20 witness: start() has returned without a stop(): the loop left by the
\* max_steps bound and the flag is still set
StartReturnedStillRunning ==
    /\ lastReturn.call = "start"
    /\ lastReturn.exc = "none"
    /\ MaxStepsReached
    /\ running

====
